---- MODULE Spec2Model ----
(***************************************************************************)
(* Model of app.py, the credit-card fraud detection web application:       *)
(* the Flask handlers (login, logout, dashboard, upload, results,          *)
(* download), the process-wide result cache results_data, the artifact     *)
(* files written by the upload pipeline, and the pipeline itself           *)
(* (ingest, clean, feature building, scoring, reporting).                  *)
(*                                                                         *)
(* Text is a sequence of code points ("EPA" is <<69, 80, 65>>), so that    *)
(* str.strip/lower/replace and the sort order of category values are       *)
(* computed and not assumed.  A data-frame cell is a sequence of integers: *)
(* a text cell is its code points, a numeric cell is <<n>>, a timestamp is *)
(* <<year, month, day>>, and the empty sequence is the missing value       *)
(* (NaN / NaT).                                                            *)
(***************************************************************************)
EXTENDS Integers, Sequences, FiniteSets, TLC

VARIABLES
    session_user_id,  \* Flask-Login's user id in the session cookie, "" when logged out
    results_data,     \* the global dict of app.py line 44
    upload_folder,    \* upload/   : file name -> saved upload
    static_folder,    \* static/   : file name -> chart contents
    result_folder,    \* result/   : file name -> report contents
    df,               \* the upload handler's data frame where its last run stopped
    request,          \* the request in flight (route "" when there is none)
    response,         \* the last response sent
    reader,           \* a dashboard/results handler between two reads of results_data
    summary           \* upload()'s counters of lines 153-155 while it computes them

vars == <<session_user_id, results_data, upload_folder, static_folder,
          result_folder, df, request, response, reader, summary>>

(***************************************************************************)
(* Bounds of the model.                                                    *)
(***************************************************************************)
\* longest uploaded table, in rows
MaxRows == 3

(***************************************************************************)
(* Text                                                                    *)
(***************************************************************************)
\* a function on 1..n as a tuple: a Python list
List(f) == SubSeq(f, 1, Len(f))

\* the characters str.strip() removes
IsSpace(c) == c \in {9, 10, 11, 12, 13, 32}

RECURSIVE lstrip(_)
lstrip(s) == IF s # <<>> /\ IsSpace(Head(s)) THEN lstrip(Tail(s)) ELSE s

RECURSIVE rstrip(_)
rstrip(s) ==
    IF s # <<>> /\ IsSpace(s[Len(s)]) THEN rstrip(SubSeq(s, 1, Len(s) - 1)) ELSE s

strip(s) == rstrip(lstrip(s))

lower(s) == List([i \in 1..Len(s) |-> IF s[i] \in 65..90 THEN s[i] + 32 ELSE s[i]])

\* str.replace for one-character strings
replace(s, old, new) == List([i \in 1..Len(s) |-> IF s[i] = old THEN new ELSE s[i]])

\* Python's order on str: by code point, a proper prefix first
RECURSIVE StrLess(_, _)
StrLess(a, b) ==
    IF b = <<>> THEN FALSE
    ELSE IF a = <<>> THEN TRUE
    ELSE IF Head(a) # Head(b) THEN Head(a) < Head(b)
    ELSE StrLess(Tail(a), Tail(b))

IsDigit(c) == c \in 48..57

IsDigits(s) == s # <<>> /\ \A i \in 1..Len(s) : IsDigit(s[i])

RECURSIVE ParseNumber(_)
ParseNumber(s) ==
    IF s = <<>> THEN 0
    ELSE 10 * ParseNumber(SubSeq(s, 1, Len(s) - 1)) + (s[Len(s)] - 48)

(***************************************************************************)
(* Column names                                                            *)
(***************************************************************************)
\* 'transaction_date', 'agency_name', 'vendor', 'amount'
expected_cols ==
    << <<116, 114, 97, 110, 115, 97, 99, 116, 105, 111, 110, 95, 100, 97, 116, 101>>,
       <<97, 103, 101, 110, 99, 121, 95, 110, 97, 109, 101>>,
       <<118, 101, 110, 100, 111, 114>>,
       <<97, 109, 111, 117, 110, 116>> >>

TRANSACTION_DATE == <<84, 82, 65, 78, 83, 65, 67, 84, 73, 79, 78, 95, 68, 65, 84, 69>>
AGENCY_NAME == <<65, 71, 69, 78, 67, 89, 95, 78, 65, 77, 69>>
MERCHANT_NAME == <<77, 69, 82, 67, 72, 65, 78, 84, 95, 78, 65, 77, 69>>
TRANSACTION_AMOUNT ==
    <<84, 82, 65, 78, 83, 65, 67, 84, 73, 79, 78, 95, 65, 77, 79, 85, 78, 84>>
Month == <<77, 111, 110, 116, 104>>
DayOfWeek == <<68, 97, 121, 79, 102, 87, 101, 101, 107>>
AGENCY_CODE == <<65, 71, 69, 78, 67, 89, 95, 67, 79, 68, 69>>
MERCHANT_CODE == <<77, 69, 82, 67, 72, 65, 78, 84, 95, 67, 79, 68, 69>>
Anomaly == <<65, 110, 111, 109, 97, 108, 121>>

\* the names assigned to df.columns at line 101
canonical_cols == <<TRANSACTION_DATE, AGENCY_NAME, MERCHANT_NAME, TRANSACTION_AMOUNT>>

(***************************************************************************)
(* Data frames: [columns |-> names, rows |-> rows of cells]                *)
(***************************************************************************)
NaN == <<>>

NoFrame == [columns |-> <<>>, rows |-> <<>>]

\* position of the first column called name
col(frame, name) ==
    CHOOSE j \in 1..Len(frame.columns) :
        /\ frame.columns[j] = name
        /\ \A k \in 1..(j - 1) : frame.columns[k] # name

\* the cells of one column, top to bottom
column(frame, name) ==
    LET c == col(frame, name) IN List([i \in 1..Len(frame.rows) |-> frame.rows[i][c]])

\* the fields pandas.read_csv reads as missing (a part of its default list)
na_values == {<<>>, <<78, 65>>, <<78, 97, 78>>, <<110, 117, 108, 108>>}

\* read_csv's type inference: a column of numerals (and blanks) becomes numeric
numeric_column(file, j) ==
    \A i \in 1..Len(file.rows) :
        file.rows[i][j] \in na_values \/ IsDigits(file.rows[i][j])

\* pd.read_csv(filepath), line 92
read_csv(file) ==
    LET numeric == List([j \in 1..Len(file.columns) |-> numeric_column(file, j)]) IN
    [columns |-> file.columns,
     rows |-> List([i \in 1..Len(file.rows) |->
                 List([j \in 1..Len(file.columns) |->
                    IF file.rows[i][j] \in na_values THEN NaN
                    ELSE IF numeric[j] THEN <<ParseNumber(file.rows[i][j])>>
                    ELSE file.rows[i][j]])])]

\* lines 93-94
actual_cols(frame) ==
    List([j \in 1..Len(frame.columns) |-> replace(lower(strip(frame.columns[j])), 32, 95)])

\* all(col in actual_cols for col in expected_cols), line 97
schema_ok(actual) ==
    \A i \in 1..Len(expected_cols) :
        \E j \in 1..Len(actual) : actual[j] = expected_cols[i]

\* positions of every column called name, left to right
RECURSIVE positions(_, _, _)
positions(names, name, j) ==
    IF j > Len(names) THEN <<>>
    ELSE (IF names[j] = name THEN <<j>> ELSE <<>>) \o positions(names, name, j + 1)

RECURSIVE select_positions(_, _, _)
select_positions(names, wanted, i) ==
    IF i > Len(wanted) THEN <<>>
    ELSE positions(names, wanted[i], 1) \o select_positions(names, wanted, i + 1)

\* df[expected_cols], line 100: a label that occurs twice selects both columns
select_columns(frame, wanted) ==
    LET pos == select_positions(frame.columns, wanted, 1) IN
    [columns |-> List([k \in 1..Len(pos) |-> frame.columns[pos[k]]]),
     rows |-> List([i \in 1..Len(frame.rows) |->
                 List([k \in 1..Len(pos) |-> frame.rows[i][pos[k]]])])]

\* df.head(), line 104
head(frame) ==
    [columns |-> frame.columns,
     rows |-> SubSeq(frame.rows, 1, IF Len(frame.rows) < 5 THEN Len(frame.rows) ELSE 5)]

\* df.isnull().sum(), line 109
isnull_sum(frame) ==
    List([j \in 1..Len(frame.columns) |->
        Cardinality({i \in 1..Len(frame.rows) : frame.rows[i][j] = NaN})])

\* df.shape
shape(frame) == <<Len(frame.rows), Len(frame.columns)>>

has_null(row) == \E j \in 1..Len(row) : row[j] = NaN

\* a dropna that drops only the rows that are missing everywhere: how='all'
dropna_how_all(frame) ==
    [columns |-> frame.columns,
     rows |-> SelectSeq(frame.rows, LAMBDA row : \E j \in 1..Len(row) : row[j] # NaN)]

\* df.dropna(inplace=True), line 111
dropna(frame) ==
    [columns |-> frame.columns,
     rows |-> SelectSeq(frame.rows, LAMBDA row : ~has_null(row))]

leap(y) == (y % 4 = 0 /\ y % 100 # 0) \/ y % 400 = 0

days_in_month(y, m) ==
    IF m = 2 THEN (IF leap(y) THEN 29 ELSE 28)
    ELSE IF m \in {4, 6, 9, 11} THEN 30 ELSE 31

\* the parser of pd.to_datetime(..., errors='coerce') on YYYY-MM-DD text;
\* anything else in the model's inputs is text no date format matches
parse_date(s) ==
    IF /\ Len(s) = 10
       /\ \A i \in {1, 2, 3, 4, 6, 7, 9, 10} : IsDigit(s[i])
       /\ s[5] = 45 /\ s[8] = 45
    THEN LET y == ParseNumber(SubSeq(s, 1, 4))
             m == ParseNumber(SubSeq(s, 6, 7))
             d == ParseNumber(SubSeq(s, 9, 10))
         IN IF m \in 1..12 /\ d >= 1 /\ d <= days_in_month(y, m)
            THEN <<y, m, d>> ELSE NaN
    ELSE NaN

\* df['TRANSACTION_DATE'] = pd.to_datetime(df['TRANSACTION_DATE'], errors='coerce'), line 112
to_datetime(frame) ==
    LET c == col(frame, TRANSACTION_DATE) IN
    [columns |-> frame.columns,
     rows |-> List([i \in 1..Len(frame.rows) |->
                 List([j \in 1..Len(frame.columns) |->
                    IF j = c THEN parse_date(frame.rows[i][j]) ELSE frame.rows[i][j]])])]

\* df.dropna(subset=['TRANSACTION_DATE'], inplace=True), line 113
dropna_subset(frame, name) ==
    LET c == col(frame, name) IN
    [columns |-> frame.columns,
     rows |-> SelectSeq(frame.rows, LAMBDA row : row[c] # NaN)]

\* Timestamp.dayofweek, Monday = 0
dayofweek(ts) ==
    LET t == <<0, 3, 2, 5, 0, 3, 5, 1, 4, 6, 2, 4>>
        y == IF ts[2] < 3 THEN ts[1] - 1 ELSE ts[1]
        sunday0 == (y + (y \div 4) - (y \div 100) + (y \div 400) + t[ts[2]] + ts[3]) % 7
    IN (sunday0 + 6) % 7

\* first-seen numbering of the values of a column: what cat_codes is not
first_seen_codes(values) ==
    List([i \in 1..Len(values) |-> Cardinality({values[k] : k \in 1..i}) - 1])

\* Series.astype('category').cat.codes, lines 120-121: the categories are the
\* distinct values in sorted order, the code of a value is its position, the
\* code of a missing value is -1
cat_codes(values) ==
    List([i \in 1..Len(values) |->
        IF values[i] = NaN THEN -1
        ELSE Cardinality({v \in {values[k] : k \in 1..Len(values)} \ {NaN} :
                             StrLess(v, values[i])})])

\* lines 118-121
add_features(frame) ==
    LET dates == column(frame, TRANSACTION_DATE)
        agency == cat_codes(column(frame, AGENCY_NAME))
        merchant == cat_codes(column(frame, MERCHANT_NAME))
    IN [columns |-> frame.columns \o <<Month, DayOfWeek, AGENCY_CODE, MERCHANT_CODE>>,
        rows |-> List([i \in 1..Len(frame.rows) |->
                    frame.rows[i] \o
                    << IF dates[i] = NaN THEN NaN ELSE <<dates[i][2]>>,
                       IF dates[i] = NaN THEN NaN ELSE <<dayofweek(dates[i])>>,
                       <<agency[i]>>, <<merchant[i]>> >>])]

\* Series.value_counts(): value -> number of rows, missing values left out (the
\* model has fewer distinct values than the 5 and 8 that .head() and .head(8) keep)
value_counts(values) ==
    [v \in {values[k] : k \in 1..Len(values)} \ {NaN} |->
        Cardinality({k \in 1..Len(values) : values[k] = v})]

\* df['Anomaly'] = model.predict(features_scaled), line 147
add_anomaly(frame, labels) ==
    [columns |-> frame.columns \o <<Anomaly>>,
     rows |-> List([i \in 1..Len(frame.rows) |-> frame.rows[i] \o << <<labels[i]>> >>])]

\* df[df['Anomaly'] == -1], line 149
anomalies_of(frame) ==
    LET c == col(frame, Anomaly) IN
    [columns |-> frame.columns,
     rows |-> SelectSeq(frame.rows, LAMBDA row : row[c] = <<-1>>)]

(***************************************************************************)
(* Summary statistics                                                      *)
(***************************************************************************)
Min(S) == CHOOSE x \in S : \A y \in S : x <= y

Max(S) == CHOOSE x \in S : \A y \in S : x >= y

\* Series.describe(), line 127: count, min and max of the amounts (the mean,
\* the deviation and the quartiles are floating-point values no handler reads)
describe(values) ==
    LET present == SelectSeq(values, LAMBDA v : v # NaN)
        nums == {present[k][1] : k \in 1..Len(present)}
    IN IF nums = {} THEN [count |-> 0, min |-> NaN, max |-> NaN]
       ELSE [count |-> Len(present), min |-> <<Min(nums)>>, max |-> <<Max(nums)>>]

(***************************************************************************)
(* Floating point: a positive double is [m |-> 53 bits, the first one 1,   *)
(* e |-> exponent], its value the number written by m times 2^e; the bits  *)
(* of zero are <<>>.  Every operation rounds to nearest, ties to even.     *)
(***************************************************************************)
\* number of bits of a double's significand
Precision == 53

RECURSIVE binary(_)
binary(n) == IF n = 0 THEN <<>> ELSE Append(binary(n \div 2), n % 2)

RECURSIVE to_int(_)
to_int(bits) ==
    IF bits = <<>> THEN 0 ELSE 2 * to_int(SubSeq(bits, 1, Len(bits) - 1)) + bits[Len(bits)]

increment[bits \in Seq({0, 1})] ==
    IF bits = <<>> THEN <<1>>
    ELSE IF bits[Len(bits)] = 0 THEN SubSeq(bits, 1, Len(bits) - 1) \o <<1>>
    ELSE increment[SubSeq(bits, 1, Len(bits) - 1)] \o <<0>>

zeros(n) == IF n <= 0 THEN <<>> ELSE List([i \in 1..n |-> 0])

RECURSIVE strip_zeros(_)
strip_zeros(bits) ==
    IF bits # <<>> /\ Head(bits) = 0 THEN strip_zeros(Tail(bits)) ELSE bits

\* the double nearest to (bits) * 2^e, plus a nonzero rest below the last bit
\* when sticky
to_double(bits, e, sticky) ==
    IF bits = <<>> THEN [m |-> <<>>, e |-> 0]
    ELSE IF Len(bits) <= Precision
    THEN [m |-> bits \o zeros(Precision - Len(bits)), e |-> e - (Precision - Len(bits))]
    ELSE LET keep == SubSeq(bits, 1, Precision)
             dropped == SubSeq(bits, Precision + 1, Len(bits))
             rest == sticky \/ \E i \in 2..Len(dropped) : dropped[i] = 1
             up == dropped[1] = 1 /\ (rest \/ keep[Precision] = 1)
             m == IF up THEN increment[keep] ELSE keep
         IN IF Len(m) > Precision
            THEN [m |-> SubSeq(m, 1, Precision), e |-> e + Len(dropped) + 1]
            ELSE [m |-> m, e |-> e + Len(dropped)]

\* the binary digits of r / b after the point, r < b, appended to acc until
\* acc holds one bit more than a significand; pos counts the digits
div_bits[r \in Nat, b \in Nat, acc \in Seq({0, 1}), pos \in Nat] ==
    IF Len(acc) > Precision \/ (r = 0 /\ acc # <<>>)
    THEN [bits |-> acc, pos |-> pos, sticky |-> r # 0]
    ELSE LET bit == IF 2 * r >= b THEN 1 ELSE 0
             rest == IF 2 * r >= b THEN 2 * r - b ELSE 2 * r
         IN div_bits[rest, b, IF acc = <<>> /\ bit = 0 THEN acc ELSE Append(acc, bit),
                     pos + 1]

\* a / b for two ints, b > 0: Python's true division
float_div(a, b) ==
    IF a = 0 THEN [m |-> <<>>, e |-> 0]
    ELSE LET d == div_bits[a % b, b, binary(a \div b), 0]
         IN to_double(d.bits, 0 - d.pos, d.sticky)

\* bits * k, for a small k
mul_bits[bits \in Seq({0, 1}), k \in Nat, carry \in Nat] ==
    IF bits = <<>> THEN binary(carry)
    ELSE LET v == bits[Len(bits)] * k + carry
         IN Append(mul_bits[SubSeq(bits, 1, Len(bits) - 1), k, v \div 2], v % 2)

\* x * k for a double x and a small int k
float_mul(x, k) == to_double(strip_zeros(mul_bits[x.m, k, 0]), x.e, FALSE)

\* round(x, 2) in hundredths, for x below 2^20: the hundredth nearest to the
\* exact value of x, the even one when x is halfway
round_hundredths(x) ==
    IF x.m = <<>> THEN 0
    ELSE LET p == mul_bits[x.m, 100, 0]
             f == 0 - x.e                        \* bits after the point
             bits == zeros(f + 1 - Len(p)) \o p
             whole == to_int(SubSeq(bits, 1, Len(bits) - f))
             frac == SubSeq(bits, Len(bits) - f + 1, Len(bits))
             rest == \E i \in 2..Len(frac) : frac[i] = 1
         IN IF frac # <<>> /\ frac[1] = 1 /\ (rest \/ whole % 2 = 1)
            THEN whole + 1 ELSE whole

\* round((fraud_count / total_transactions) * 100, 2), line 155, in hundredths
\* of a percent: 3333 is 33.33
percentage(fraud_count, total_transactions) ==
    round_hundredths(float_mul(float_div(fraud_count, total_transactions), 100))

(***************************************************************************)
(* Users and sessions                                                      *)
(***************************************************************************)
\* line 26; the session keeps str(user.id)
users == [admin |-> [id |-> "1", username |-> "admin", password |-> "admin123"]]

\* load_user, lines 28-33, as used by current_user.is_authenticated
load_user(user_id) == {u \in DOMAIN users : users[u].id = user_id}

is_authenticated == load_user(session_user_id) # {}

\* a login check that forgets the password
username_known(username, password) == username \in DOMAIN users

\* user = users.get(username); if user and user.password == password, lines 55-56
credentials_ok(username, password) ==
    /\ username \in DOMAIN users
    /\ users[username].password = password

(***************************************************************************)
(* Folders and the result cache                                            *)
(***************************************************************************)
\* open(name, 'w') and a complete write
Put(folder, name, content) ==
    [n \in DOMAIN folder \cup {name} |-> IF n = name THEN content ELSE folder[n]]

EmptyFolder == [n \in {} |-> NoFrame]

\* results_data = {}, line 44
EmptyResults == [k \in {} |-> 0]

\* dict.update
update(d, new) ==
    [k \in DOMAIN d \cup DOMAIN new |-> IF k \in DOMAIN new THEN new[k] ELSE d[k]]

(***************************************************************************)
(* The upload pipeline, lines 90-188                                       *)
(***************************************************************************)
\* the places where a run of upload() can stop, in program order
Stages == <<"no_file", "save", "read_csv", "schema", "rename", "savefig_eda",
            "fit_predict", "savefig_fraud", "to_csv", "done">>

stage_index(stage) == CHOOSE i \in 1..Len(Stages) : Stages[i] = stage

\* the run got past this stage
passed(stop, stage) == stage_index(stop) > stage_index(stage)

\* what the environment can make fail: saving the upload (line 88), parsing it
\* (line 92), fitting the model (lines 143-147), writing a chart (lines 137,
\* 165) or the report (line 170); a write that fails leaves the old file
Faults == {"none", "save", "read_csv", "savefig_eda", "fit_predict",
           "savefig_fraud", "to_csv"}

\* IsolationForest(contamination=0.02), lines 145-147: the rows labelled -1 are
\* those that score below the 2nd percentile of the scores, which lies at
\* position 0.02 * (n - 1) of the sorted scores
max_flagged(n) == (2 * (n - 1)) \div 100 + 1

\* what model.predict can return for n rows, one label a row; which rows score
\* lowest is left open
predictions(n) ==
    {labels \in [1..n -> {-1, 1}] :
        Cardinality({i \in 1..n : labels[i] = -1}) <= max_flagged(n)}

\* lines 92-94
ingest(file) ==
    LET raw == read_csv(file) IN [raw EXCEPT !.columns = actual_cols(raw)]

\* line 101; with any other number of columns than four the assignment raises
rename(frame) == [frame EXCEPT !.columns = canonical_cols]

\* lines 111-113
clean(frame) == dropna_subset(to_datetime(dropna(frame)), TRANSACTION_DATE)

\* where the run of upload() stops: file is the upload, ingested the frame of
\* line 94, selected the frame of line 100, feat the frame of line 121
stop_of(file, fault, ingested, selected, feat) ==
    IF file.filename = "" THEN "no_file"
    ELSE IF fault \in {"save", "read_csv"} THEN fault
    ELSE IF ~schema_ok(ingested.columns) THEN "schema"
    ELSE IF Len(selected.columns) # Len(canonical_cols) THEN "rename"
    ELSE IF fault = "savefig_eda" THEN "savefig_eda"
    \* StandardScaler.fit_transform raises on a frame without rows
    ELSE IF fault = "fit_predict" \/ feat.rows = <<>> THEN "fit_predict"
    ELSE IF fault \in {"savefig_fraud", "to_csv"} THEN fault
    ELSE "done"

\* the frame df where the run stopped; scored is the frame of line 147
df_at(stop, ingested, selected, feat, scored) ==
    IF ~passed(stop, "read_csv") THEN NoFrame
    ELSE IF stop = "schema" THEN ingested
    ELSE IF stop = "rename" THEN selected
    ELSE IF ~passed(stop, "fit_predict") THEN feat
    ELSE scored

\* a dict that holds the counters and nothing else
counters_only(before, cleaned, scored) ==
    [fraud_count |-> Len(anomalies_of(scored).rows),
     total_transactions |-> Len(scored.rows),
     fraud_percentage |-> percentage(Len(anomalies_of(scored).rows), Len(scored.rows))]

\* the dict of lines 173-183, with the counters of lines 153-155; before is
\* the frame of line 101, cleaned the one of line 113, scored the one of line 147
new_results(before, cleaned, scored) ==
    LET anomalies == anomalies_of(scored)
        total_transactions == Len(scored.rows)
        fraud_count == Len(anomalies.rows)
    IN [raw_preview |-> head(before),
        preprocessing_summary |->
            [initial_shape |-> shape(before),
             missing_values |-> isnull_sum(before),
             after_cleaning_shape |-> shape(cleaned)],
        eda_summary |->
            [top_agencies |-> value_counts(column(scored, AGENCY_NAME)),
             top_merchants |-> value_counts(column(scored, MERCHANT_NAME)),
             amount_stats |-> describe(column(scored, TRANSACTION_AMOUNT)),
             per_month |-> value_counts(column(scored, Month))],
        fraud_table |-> anomalies,
        eda_plot |-> "eda_plot.png",
        fraud_plot |-> "fraud_agencies.png",
        fraud_count |-> fraud_count,
        total_transactions |-> total_transactions,
        fraud_percentage |-> percentage(fraud_count, total_transactions)]

\* an upload() that stores its results before it writes the report
update_before_report(stop) == stop \in {"to_csv", "done"}

\* results_data.update(...) at line 173 runs when nothing before it raised or returned
runs_update(stop) == stop = "done"

\* static/ after the run: eda_plot.png (line 137), fraud_agencies.png (line 165)
static_after(folder, stop, feat, scored) ==
    IF ~passed(stop, "savefig_eda") THEN folder
    ELSE LET eda_done ==
                 Put(folder, "eda_plot.png", value_counts(column(feat, TRANSACTION_AMOUNT)))
         IN IF ~passed(stop, "savefig_fraud") THEN eda_done
            ELSE Put(eda_done, "fraud_agencies.png",
                     value_counts(column(anomalies_of(scored), AGENCY_NAME)))

\* result/ after the run: fraud_report.csv (line 170)
result_after(folder, stop, scored) ==
    IF ~passed(stop, "to_csv") THEN folder
    ELSE Put(folder, "fraud_report.csv", anomalies_of(scored))

\* the response of upload(): lines 85, 98, 185, 188; an exception outside the
\* try block (line 88) is Flask's 500
upload_response(stop, ingested) ==
    IF stop = "no_file"
    THEN [route |-> "/upload", status |-> 400,
          body |-> [kind |-> "text", text |-> "No file selected"]]
    ELSE IF stop = "save"
    THEN [route |-> "/upload", status |-> 500,
          body |-> [kind |-> "text", text |-> "Internal Server Error"]]
    ELSE IF stop = "schema"
    THEN [route |-> "/upload", status |-> 400,
          body |-> [kind |-> "text", text |-> "Required columns missing. Found: ",
                    found |-> ingested.columns]]
    ELSE IF stop = "done"
    THEN [route |-> "/upload", status |-> 302,
          body |-> [kind |-> "redirect", location |-> "/results"]]
    ELSE [route |-> "/upload", status |-> 200,
          body |-> [kind |-> "text", text |-> "Error while processing file: ",
                    e |-> stop]]

(***************************************************************************)
(* Inputs: uploaded CSV files                                              *)
(***************************************************************************)
\* table rows as (date, agency, vendor, amount) fields, as text
\* 2024-01-15, EPA, Acme, 100
RowEPA ==
    << <<50, 48, 50, 52, 45, 48, 49, 45, 49, 53>>, <<69, 80, 65>>,
       <<65, 99, 109, 101>>, <<49, 48, 48>> >>

\* 2024-02-04, DOT, Zeta, 9500
RowDOT ==
    << <<50, 48, 50, 52, 45, 48, 50, 45, 48, 52>>, <<68, 79, 84>>,
       <<90, 101, 116, 97>>, <<57, 53, 48, 48>> >>

\* 2024-03-09, epa, Bolt, 40
RowLower ==
    << <<50, 48, 50, 52, 45, 48, 51, 45, 48, 57>>, <<101, 112, 97>>,
       <<66, 111, 108, 116>>, <<52, 48>> >>

\* not-a-date, DOT, Acme, 250
RowBadDate ==
    << <<110, 111, 116, 45, 97, 45, 100, 97, 116, 101>>, <<68, 79, 84>>,
       <<65, 99, 109, 101>>, <<50, 53, 48>> >>

\* (blank), EPA, Zeta, 100
RowNoDate == << <<>>, <<69, 80, 65>>, <<90, 101, 116, 97>>, <<49, 48, 48>> >>

\* 2024-01-15, NA, Acme, 40
RowNoAgency ==
    << <<50, 48, 50, 52, 45, 48, 49, 45, 49, 53>>, <<78, 65>>,
       <<65, 99, 109, 101>>, <<52, 48>> >>

\* 2024-02-04, DOT, (blank), 250
RowNoVendor ==
    << <<50, 48, 50, 52, 45, 48, 50, 45, 48, 52>>, <<68, 79, 84>>, <<>>, <<50, 53, 48>> >>

\* 2024-03-09, epa, Bolt, (blank)
RowNoAmount ==
    << <<50, 48, 50, 52, 45, 48, 51, 45, 48, 57>>, <<101, 112, 97>>,
       <<66, 111, 108, 116>>, <<>> >>

RowSet == {RowEPA, RowDOT, RowLower, RowBadDate, RowNoDate, RowNoAgency,
           RowNoVendor, RowNoAmount}

Tables == UNION {[1..n -> RowSet] : n \in 0..MaxRows}

\* header lines: the column names, and for each column the field it holds
\* (0: a column of memos that is none of the four)
\* transaction_date,agency_name,vendor,amount
HeaderPlain == [names |-> expected_cols, fields |-> <<1, 2, 3, 4>>]

\* "Transaction Date"," Agency Name ","VENDOR","Amount"
HeaderSpaced ==
    [names |-> << <<84, 114, 97, 110, 115, 97, 99, 116, 105, 111, 110, 32, 68, 97, 116, 101>>,
                  <<32, 65, 103, 101, 110, 99, 121, 32, 78, 97, 109, 101, 32>>,
                  <<86, 69, 78, 68, 79, 82>>,
                  <<65, 109, 111, 117, 110, 116>> >>,
     fields |-> <<1, 2, 3, 4>>]

\* "Amount","Notes","Vendor","Agency Name","Transaction_Date"
HeaderExtra ==
    [names |-> << <<65, 109, 111, 117, 110, 116>>,
                  <<78, 111, 116, 101, 115>>,
                  <<86, 101, 110, 100, 111, 114>>,
                  <<65, 103, 101, 110, 99, 121, 32, 78, 97, 109, 101>>,
                  <<84, 114, 97, 110, 115, 97, 99, 116, 105, 111, 110, 95, 68, 97, 116, 101>> >>,
     fields |-> <<4, 0, 3, 2, 1>>]

\* "Transaction Date","Agency Name","Merchant","Amount": no vendor
HeaderNoVendor ==
    [names |-> << <<84, 114, 97, 110, 115, 97, 99, 116, 105, 111, 110, 32, 68, 97, 116, 101>>,
                  <<65, 103, 101, 110, 99, 121, 32, 78, 97, 109, 101>>,
                  <<77, 101, 114, 99, 104, 97, 110, 116>>,
                  <<65, 109, 111, 117, 110, 116>> >>,
     fields |-> <<1, 2, 3, 4>>]

\* "transaction_date","agency_name","vendor","amount","Amount": the fifth
\* column is none of the four, and its name normalizes to the fourth's
HeaderTwice ==
    [names |-> expected_cols \o << <<65, 109, 111, 117, 110, 116>> >>,
     fields |-> <<1, 2, 3, 4, 0>>]

Headers == {HeaderPlain, HeaderSpaced, HeaderExtra, HeaderNoVendor, HeaderTwice}

\* the cell of the columns that are none of the four: memo
Memo == <<109, 101, 109, 111>>

\* request.files['file'] without a file name: bool(file) is False
NoFile == [filename |-> "", columns |-> <<>>, rows |-> <<>>]

CsvFile(header, table) ==
    [filename |-> "data.csv",
     columns |-> header.names,
     rows |-> List([i \in 1..Len(table) |->
                 List([j \in 1..Len(header.names) |->
                    IF header.fields[j] = 0 THEN Memo
                    ELSE table[i][header.fields[j]]])])]

Files == {CsvFile(h, t) : h \in Headers, t \in Tables}

\* the uploads of the specifications with several requests
SessionFiles ==
    {CsvFile(HeaderSpaced, t) : t \in {<<RowEPA, RowDOT>>, <<RowDOT, RowBadDate>>,
                                       <<RowBadDate>>}}
    \cup {CsvFile(HeaderNoVendor, <<RowEPA>>), CsvFile(HeaderTwice, <<RowEPA>>)}

(***************************************************************************)
(* Requests and responses                                                  *)
(***************************************************************************)
NoRequest == [route |-> "", method |-> "", username |-> "", password |-> "", file |-> NoFile]

Get(route) == [NoRequest EXCEPT !.route = route, !.method = "GET"]

LoginPost(username, password) ==
    [NoRequest EXCEPT !.route = "/login", !.method = "POST",
                      !.username = username, !.password = password]

UploadPost(file) == [NoRequest EXCEPT !.route = "/upload", !.method = "POST", !.file = file]

Requests ==
    {Get(r) : r \in {"/", "/login", "/logout", "/dashboard", "/results", "/download"}}
    \cup {LoginPost(u, p) : u \in {"admin", "guest"}, p \in {"admin123", "letmein"}}
    \cup {UploadPost(f) : f \in SessionFiles \cup {NoFile}}

NoResponse == [route |-> "", status |-> 0, body |-> [kind |-> "none"]]

Redirect(route, location) ==
    [route |-> route, status |-> 302, body |-> [kind |-> "redirect", location |-> location]]

Text(route, status, text) ==
    [route |-> route, status |-> status, body |-> [kind |-> "text", text |-> text]]

Template(route, name, args) ==
    [route |-> route, status |-> 200,
     body |-> [kind |-> "template", name |-> name, args |-> args]]

\* @login_required with login_manager.login_view = 'login', lines 16, 63, 69, 81, 191, 208
unauthorized == Redirect(request.route, "/login")

\* the keyword arguments of render_template at lines 75-77 and 197-205, in the
\* order Python evaluates them
dashboard_reads ==
    <<[arg |-> "fraud_count", key |-> "fraud_count"],
      [arg |-> "total_transactions", key |-> "total_transactions"],
      [arg |-> "fraud_percentage", key |-> "fraud_percentage"]>>

results_reads ==
    <<[arg |-> "raw_preview", key |-> "raw_preview"],
      [arg |-> "preprocessing_summary", key |-> "preprocessing_summary"],
      [arg |-> "eda_summary", key |-> "eda_summary"],
      [arg |-> "eda_plot", key |-> "eda_plot"],
      [arg |-> "fraud_plot", key |-> "fraud_plot"],
      [arg |-> "fraud_count", key |-> "fraud_count"],
      [arg |-> "total_transactions", key |-> "total_transactions"],
      [arg |-> "fraud_percentage", key |-> "fraud_percentage"],
      [arg |-> "table", key |-> "fraud_table"]>>

reads_of(route) == IF route = "/dashboard" THEN dashboard_reads ELSE results_reads

\* the arguments read from the dict d, all at once
read_all(reads, d) ==
    [a \in {reads[i].arg : i \in 1..Len(reads)} |->
        LET i == CHOOSE i \in 1..Len(reads) : reads[i].arg = a IN d[reads[i].key]]

\* the page of dashboard() (lines 72-78) or results() (lines 194-205) once
\* its arguments are read
page(route, args) ==
    IF route = "/dashboard"
    THEN Template(route, "dashboard.html", update(args, [fraud_plot |-> "fraud_agencies.png"]))
    ELSE Template(route, "results.html", args)

\* the answer of dashboard() and results() while results_data is empty
no_results(route) ==
    IF route = "/dashboard"
    THEN Template(route, "dashboard.html", [message |-> "No dataset uploaded yet."])
    ELSE Text(route, 400, "No results available. Please upload a dataset first.")

IdleReader == [route |-> "", pc |-> 0, args |-> EmptyResults]

\* no upload() is between lines 153 and 155
NoSummary == [total_transactions |-> 0, fraud_count |-> 0, fraud_percentage |-> -1]

server == <<results_data, upload_folder, static_folder, result_folder, df>>

(***************************************************************************)
(* Initial state: app.py lines 10-44                                       *)
(***************************************************************************)
Init ==
    /\ session_user_id = ""
    /\ results_data = EmptyResults
    /\ upload_folder = EmptyFolder
    /\ static_folder = EmptyFolder
    /\ result_folder = EmptyFolder
    /\ df = NoFrame
    /\ request = NoRequest
    /\ response = NoResponse
    /\ reader = IdleReader
    /\ summary = NoSummary

(***************************************************************************)
(* Handlers                                                                *)
(***************************************************************************)
\* the client has read the last response and sends its next request; the
\* locals of the handler that answered are gone
receive(req) ==
    /\ request.route = ""
    /\ request' = req
    /\ response' = NoResponse
    /\ df' = NoFrame
    /\ UNCHANGED <<session_user_id, results_data, upload_folder, static_folder,
                   result_folder, reader, summary>>

\* lines 46-48
index ==
    /\ request.route = "/"
    /\ request' = NoRequest
    /\ response' = Template("/", "login.html", EmptyResults)
    /\ UNCHANGED <<session_user_id, server, reader, summary>>

\* lines 50-60
login ==
    /\ request.route = "/login"
    /\ request' = NoRequest
    /\ IF request.method = "POST"
       THEN IF credentials_ok(request.username, request.password)
            THEN /\ session_user_id' = users[request.username].id
                 /\ response' = Redirect("/login", "/dashboard")
            ELSE /\ response' = Text("/login", 200, "Invalid credentials! Try again.")
                 /\ UNCHANGED session_user_id
       ELSE /\ response' = Template("/login", "login.html", EmptyResults)
            /\ UNCHANGED session_user_id
    /\ UNCHANGED <<server, reader, summary>>

\* lines 62-66
logout ==
    /\ request.route = "/logout"
    /\ request' = NoRequest
    /\ IF is_authenticated
       THEN /\ session_user_id' = ""
            /\ response' = Redirect("/logout", "/login")
       ELSE /\ response' = unauthorized
            /\ UNCHANGED session_user_id
    /\ UNCHANGED <<server, reader, summary>>

\* dashboard(), lines 68-78, and results(), lines 190-205, run without interruption
show(route) ==
    /\ request.route = route
    /\ request' = NoRequest
    /\ response' =
         IF ~is_authenticated THEN unauthorized
         ELSE IF DOMAIN results_data = {} THEN no_results(route)
         ELSE IF \E i \in 1..Len(reads_of(route)) :
                    reads_of(route)[i].key \notin DOMAIN results_data
              THEN Text(route, 500, "KeyError")
         ELSE page(route, read_all(reads_of(route), results_data))
    /\ UNCHANGED <<session_user_id, server, reader, summary>>

dashboard == show("/dashboard")

results == show("/results")

\* lines 207-211
download ==
    /\ request.route = "/download"
    /\ request' = NoRequest
    /\ response' =
         IF ~is_authenticated THEN unauthorized
         ELSE IF "fraud_report.csv" \in DOMAIN result_folder
              THEN [route |-> "/download", status |-> 200,
                    body |-> [kind |-> "file", attachment |-> result_folder["fraud_report.csv"]]]
              ELSE Text("/download", 500, "FileNotFoundError")
    /\ UNCHANGED <<session_user_id, server, reader, summary>>

\* lines 80-188, with the environment's faults taken from faults
run_upload(faults) ==
    /\ request.route = "/upload"
    /\ request' = NoRequest
    /\ UNCHANGED <<session_user_id, reader, summary>>
    /\ IF ~is_authenticated
       THEN /\ response' = unauthorized
            /\ UNCHANGED server
       ELSE \* the frames of lines 94, 100, 101, 113 and 121; the last three
            \* exist when the run gets past line 101
            \E ingested \in {ingest(request.file)} :
            \E selected \in {select_columns(ingested, expected_cols)} :
            \E before \in {IF schema_ok(ingested.columns)
                              /\ Len(selected.columns) = Len(canonical_cols)
                           THEN rename(selected) ELSE NoFrame} :
            \E cleaned \in {IF before = NoFrame THEN NoFrame ELSE clean(before)} :
            \E feat \in {IF before = NoFrame THEN NoFrame ELSE add_features(cleaned)} :
            \E fault \in faults :
            \E stop \in {stop_of(request.file, fault, ingested, selected, feat)} :
            \E labels \in predictions(IF passed(stop, "fit_predict")
                                      THEN Len(feat.rows) ELSE 0) :
            \E scored \in {IF passed(stop, "fit_predict")
                           THEN add_anomaly(feat, labels) ELSE NoFrame} :
                /\ upload_folder' =
                     IF passed(stop, "save")
                     THEN Put(upload_folder, request.file.filename, request.file)
                     ELSE upload_folder
                /\ df' = df_at(stop, ingested, selected, feat, scored)
                /\ static_folder' = static_after(static_folder, stop, feat, scored)
                /\ result_folder' = result_after(result_folder, stop, scored)
                /\ results_data' =
                     IF runs_update(stop)
                     THEN update(results_data, new_results(before, cleaned, scored))
                     ELSE results_data
                /\ response' = upload_response(stop, ingested)

upload == run_upload(Faults)

(***************************************************************************)
(* One session, one request at a time                                      *)
(***************************************************************************)
Next ==
    \/ \E req \in Requests : receive(req)
    \/ index
    \/ login
    \/ logout
    \/ dashboard
    \/ upload
    \/ results
    \/ download

Spec == Init /\ [][Next]_vars

(***************************************************************************)
(* One run of the pipeline on each file, by a logged-in user               *)
(***************************************************************************)
InitPipeline ==
    /\ session_user_id = "1"
    /\ results_data = EmptyResults
    /\ upload_folder = EmptyFolder
    /\ static_folder = EmptyFolder
    /\ result_folder = EmptyFolder
    /\ df = NoFrame
    /\ request \in {UploadPost(f) : f \in Files}
    /\ response = NoResponse
    /\ reader = IdleReader
    /\ summary = NoSummary

NextPipeline == upload

SpecPipeline == InitPipeline /\ [][NextPipeline]_vars

(***************************************************************************)
(* A logged-in user's uploads next to a dashboard() or results() that runs *)
(* in another thread of the server (app.run, line 214, serves each request *)
(* in a thread of its own): the handler reads results_data once to test it *)
(* and once for each argument, and upload()'s results_data.update can fall *)
(* between any two of these reads                                          *)
(***************************************************************************)
ThreadFiles ==
    {CsvFile(HeaderSpaced, t) : t \in {<<RowEPA, RowDOT>>, <<RowDOT, RowBadDate>>}}

InitThreads ==
    /\ session_user_id = "1"
    /\ results_data = EmptyResults
    /\ upload_folder = EmptyFolder
    /\ static_folder = EmptyFolder
    /\ result_folder = EmptyFolder
    /\ df = NoFrame
    /\ request = NoRequest
    /\ response = NoResponse
    /\ reader = IdleReader
    /\ summary = NoSummary

\* if not results_data, lines 71 and 193
begin_read(route) ==
    /\ reader.route = ""
    /\ is_authenticated
    /\ IF DOMAIN results_data = {}
       THEN /\ response' = no_results(route)
            /\ UNCHANGED reader
       ELSE /\ reader' = [route |-> route, pc |-> 1, args |-> EmptyResults]
            /\ response' = NoResponse
    /\ UNCHANGED <<session_user_id, server, request, summary>>

\* one results_data[...] of lines 75-77 or 197-205
read_next ==
    /\ reader.route # ""
    /\ reader.pc <= Len(reads_of(reader.route))
    /\ LET r == reads_of(reader.route)[reader.pc] IN
       IF r.key \in DOMAIN results_data
       THEN /\ reader' = [reader EXCEPT
                            !.pc = @ + 1,
                            !.args = update(@, [a \in {r.arg} |-> results_data[r.key]])]
            /\ UNCHANGED response
       ELSE /\ reader' = IdleReader
            /\ response' = Text(reader.route, 500, "KeyError")
    /\ UNCHANGED <<session_user_id, server, request, summary>>

\* render_template, lines 74 and 196
render ==
    /\ reader.route # ""
    /\ reader.pc > Len(reads_of(reader.route))
    /\ response' = page(reader.route, reader.args)
    /\ reader' = IdleReader
    /\ UNCHANGED <<session_user_id, server, request, summary>>

\* upload() where nothing fails in the environment
upload_undisturbed == run_upload({"none"})

NextThreads ==
    \/ \E f \in ThreadFiles : receive(UploadPost(f))
    \/ upload_undisturbed
    \/ \E route \in {"/dashboard", "/results"} : begin_read(route)
    \/ read_next
    \/ render

SpecThreads == InitThreads /\ [][NextThreads]_vars

(***************************************************************************)
(* The counters of one run, lines 153-155, for tables of many rows         *)
(***************************************************************************)
\* largest table of the counter specification, in hundreds of rows
MaxHundreds == 40

Totals == 1..MaxRows \cup {100 * k : k \in 1..MaxHundreds}

\* upload() has executed lines 153-154
InitSummary ==
    /\ session_user_id = "1"
    /\ results_data = EmptyResults
    /\ upload_folder = EmptyFolder
    /\ static_folder = EmptyFolder
    /\ result_folder = EmptyFolder
    /\ df = NoFrame
    /\ request = NoRequest
    /\ response = NoResponse
    /\ reader = IdleReader
    /\ summary \in {[total_transactions |-> t, fraud_count |-> f, fraud_percentage |-> -1] :
                       t \in Totals, f \in 0..max_flagged(MaxHundreds * 100)}
    /\ summary.fraud_count <= max_flagged(summary.total_transactions)
    /\ summary.fraud_count <= summary.total_transactions

\* line 155
summarize ==
    /\ summary.total_transactions > 0
    /\ summary.fraud_percentage = -1
    /\ summary' = [summary EXCEPT !.fraud_percentage =
                       percentage(summary.fraud_count, summary.total_transactions)]
    /\ UNCHANGED <<session_user_id, server, request, response, reader>>

NextSummary == summarize

SpecSummary == InitSummary /\ [][NextSummary]_vars

(***************************************************************************)
(* Properties                                                              *)
(***************************************************************************)
\* C1: an upload run that fails, at whatever stage, leaves results_data equal
\* key for key to what it was before the run, after any sequence of earlier
\* successful and failed uploads: every step that answers an upload request
\* with anything but the redirect to /results keeps results_data
C1_FailedUploadKeepsResults ==
    [][(request.route = "/upload" /\ response' # Redirect("/upload", "/results"))
          => results_data' = results_data]_vars

\* C1 happens: an upload that fails while it writes the report, after an
\* earlier upload has filled results_data
C1_FailedAfterSuccess ==
    /\ response = [route |-> "/upload", status |-> 200,
                   body |-> [kind |-> "text", text |-> "Error while processing file: ",
                             e |-> "to_csv"]]
    /\ DOMAIN results_data # {}

\* C9: results_data is empty at startup and stays empty until an upload is
\* answered with the redirect to /results, is never empty afterwards, and holds
\* the nine keys whenever it is not empty; an authenticated GET of /results is
\* answered 400 "No results available..." and one of /dashboard with "No
\* dataset uploaded yet." exactly when results_data is still empty, that is
\* when no upload has succeeded, however many have failed
C9_ResultsLifecycle ==
    /\ results_data = EmptyResults
    /\ [][/\ DOMAIN results_data' \in
                {{}, {"raw_preview", "preprocessing_summary", "eda_summary", "fraud_table",
                      "eda_plot", "fraud_plot", "fraud_count", "total_transactions",
                      "fraud_percentage"}}
          /\ DOMAIN results_data # {} => DOMAIN results_data' # {}
          /\ (DOMAIN results_data = {} /\ DOMAIN results_data' # {})
                => (request.route = "/upload" /\ response' = Redirect("/upload", "/results"))
          /\ (request.route = "/upload" /\ response' = Redirect("/upload", "/results"))
                => DOMAIN results_data' # {}
          /\ (request.route = "/results" /\ is_authenticated)
                => (DOMAIN results_data = {} <=>
                      response' = [route |-> "/results", status |-> 400,
                                   body |-> [kind |-> "text",
                                             text |-> "No results available. Please upload a dataset first."]])
          /\ (request.route = "/dashboard" /\ is_authenticated)
                => (DOMAIN results_data = {} <=>
                      response' = [route |-> "/dashboard", status |-> 200,
                                   body |-> [kind |-> "template", name |-> "dashboard.html",
                                             args |-> [message |-> "No dataset uploaded yet."]]])
         ]_vars

\* C9 happens: /results is answered 400 after an upload that was saved and
\* then failed
C9_NoResultsAfterFailedUpload ==
    /\ response = Text("/results", 400, "No results available. Please upload a dataset first.")
    /\ "data.csv" \in DOMAIN upload_folder
    /\ DOMAIN results_data = {}

\* C10: within one session the session becomes authenticated only by a login
\* POST whose username is in the user table with an equal password, stops
\* being authenticated only at logout, and every logout ends it; an upload,
\* dashboard, results or download request of a session that is not
\* authenticated is answered with the redirect to the login page and runs no
\* pipeline, reads no results and serves no report: folders, results_data and
\* the pipeline's frame stay as they are
C10_OnlyAuthenticated ==
    [][/\ (~is_authenticated /\ is_authenticated')
             => /\ request.route = "/login"
                /\ request.method = "POST"
                /\ request.username \in DOMAIN users
                /\ users[request.username].password = request.password
                /\ session_user_id' = users[request.username].id
       /\ (is_authenticated /\ ~is_authenticated') => request.route = "/logout"
       /\ request.route = "/logout" => ~is_authenticated'
       /\ (~is_authenticated
              /\ request.route \in {"/upload", "/dashboard", "/results", "/download"})
             => /\ response' = Redirect(request.route, "/login")
                /\ UNCHANGED <<results_data, upload_folder, static_folder, result_folder, df>>
      ]_vars

\* C10 happens: after a successful upload and a logout, an upload request is
\* turned away to the login page
C10_UploadTurnedAway ==
    /\ response = Redirect("/upload", "/login")
    /\ session_user_id = ""
    /\ DOMAIN results_data # {}

\* C7: once a run is past cleaning (its frame has the feature columns), the
\* rows of the frame are exactly the rows of the upload that have no missing
\* value in the four canonical columns and a date that parses, in the order
\* of the upload, the date parsed and the rest untouched; total_transactions
\* counts these rows alone, and every row of the flagged-row table and of
\* fraud_report.csv is one of them
C7_CleaningKeepsExactlyValidRows ==
    Len(df.columns) >= 8 =>
        LET file == upload_folder["data.csv"]
            before == rename(select_columns(ingest(file), expected_cols))
            valid(row) == (\A j \in 1..4 : row[j] # <<>>) /\ parse_date(row[1]) # <<>>
            kept == SelectSeq(before.rows, valid)
            cleaned(i) == <<parse_date(kept[i][1]), kept[i][2], kept[i][3], kept[i][4]>>
            from_kept(rows) ==
                \A r \in 1..Len(rows) :
                    \E i \in 1..Len(kept) : SubSeq(rows[r], 1, 4) = cleaned(i)
        IN /\ Len(df.rows) = Len(kept)
           /\ \A i \in 1..Len(kept) : SubSeq(df.rows[i], 1, 4) = cleaned(i)
           /\ response = Redirect("/upload", "/results") =>
                 /\ results_data.total_transactions = Len(kept)
                 /\ from_kept(results_data.fraud_table.rows)
                 /\ from_kept(result_folder["fraud_report.csv"].rows)

\* C7 happens: a successful run on a table whose first row lacks the agency,
\* whose second row is complete, and whose third row has a date that does not
\* parse
C7_DropsFirstAndThirdRow ==
    /\ response = Redirect("/upload", "/results")
    /\ upload_folder = Put(EmptyFolder, "data.csv",
                           CsvFile(HeaderExtra, <<RowNoAgency, RowEPA, RowBadDate>>))
    /\ results_data.total_transactions = 1

\* C8 as the claim states it: the agency and merchant codes of a run are the
\* dense codes 0..k-1 of the k distinct texts, equal for two rows exactly when
\* the texts are equal, and smaller for the text that appears first in the
\* cleaned table
C8_CodesFollowFirstAppearance ==
    Len(df.columns) >= 8 =>
        \A pair \in {<<AGENCY_NAME, AGENCY_CODE>>, <<MERCHANT_NAME, MERCHANT_CODE>>} :
            LET text == column(df, pair[1])
                code == column(df, pair[2])
                first(i) == CHOOSE k \in 1..i :
                                text[k] = text[i] /\ \A m \in 1..(k - 1) : text[m] # text[i]
            IN /\ {code[i][1] : i \in 1..Len(code)}
                    = 0..(Cardinality({text[i] : i \in 1..Len(text)}) - 1)
               /\ \A i, j \in 1..Len(text) :
                    /\ code[i] = code[j] <=> text[i] = text[j]
                    /\ first(i) < first(j) => code[i][1] < code[j][1]

\* C8, amended: the agency and merchant codes of a run are the dense codes
\* 0..k-1 of the k distinct texts, equal for two rows exactly when the texts
\* are equal, and smaller exactly for the text that sorts first (by code
\* point), wherever the texts appear in the table
C8_CodesFollowSortedValues ==
    Len(df.columns) >= 8 =>
        \A pair \in {<<AGENCY_NAME, AGENCY_CODE>>, <<MERCHANT_NAME, MERCHANT_CODE>>} :
            LET text == column(df, pair[1])
                code == column(df, pair[2])
            IN /\ {code[i][1] : i \in 1..Len(code)}
                    = 0..(Cardinality({text[i] : i \in 1..Len(text)}) - 1)
               /\ \A i, j \in 1..Len(text) :
                    /\ code[i] = code[j] <=> text[i] = text[j]
                    /\ code[i][1] < code[j][1] <=> StrLess(text[i], text[j])

\* C8 happens: a run on a table with the agency EPA above the agency DOT, and
\* DOT gets the code 0
C8_LaterAgencyGetsCodeZero ==
    /\ Len(df.columns) >= 8
    /\ column(df, AGENCY_NAME) = << <<69, 80, 65>>, <<68, 79, 84>> >>
    /\ column(df, AGENCY_CODE) = << <<1>>, <<0>> >>

\* C2: for every upload that was parsed, the run is stopped by the schema
\* check exactly when one of transaction_date, agency_name, vendor, amount is
\* not among the header names once trimmed, lower-cased and with underscores
\* for spaces; a run stopped there is answered 400 with the normalized names
\* found and has run no later stage (no chart, no report, no results, the frame
\* still the one that was parsed); a file that has the four names gets past
\* the selection of its columns whatever other columns it has, and goes on
\* with the four canonical columns alone
C2_SchemaCheck ==
    df # NoFrame =>
        LET file == upload_folder["data.csv"]
            found == [j \in 1..Len(file.columns) |->
                         replace(lower(strip(file.columns[j])), 32, 95)]
            complete == \A i \in 1..Len(expected_cols) :
                            \E j \in 1..Len(found) : found[j] = expected_cols[i]
            rejected == /\ response.status = 400
                        /\ response.body = [kind |-> "text",
                                            text |-> "Required columns missing. Found: ",
                                            found |-> found]
        IN /\ rejected <=> ~complete
           /\ rejected => /\ df.columns = found
                          /\ static_folder = EmptyFolder
                          /\ result_folder = EmptyFolder
                          /\ results_data = EmptyResults
           /\ complete => /\ Len(df.columns) >= Len(canonical_cols)
                          /\ SubSeq(df.columns, 1, Len(canonical_cols)) = canonical_cols

\* C3: an upload that is not answered with the redirect to /results or to the
\* login page is answered with an error text and a status: 400 when no file
\* was selected or required columns are missing, 500 for every other failure
C3_FailedUploadStatus ==
    (response.route = "/upload" /\ response.body.kind # "redirect") =>
        /\ response.body.kind = "text"
        /\ response.status =
             IF response.body.text \in {"No file selected", "Required columns missing. Found: "}
             THEN 400 ELSE 500

\* C6: whenever results_data is not empty the three artifacts are those of the
\* run whose values it holds: fraud_report.csv is its flagged-row table (so it
\* has fraud_count data rows), fraud_agencies.png charts the agencies of that
\* table, and eda_plot.png charts as many amounts as total_transactions, the
\* smallest and the largest those of its amount statistics
C6_ArtifactsOfLastSuccessfulRun ==
    DOMAIN results_data # {} =>
        /\ result_folder["fraud_report.csv"] = results_data.fraud_table
        /\ Len(result_folder["fraud_report.csv"].rows) = results_data.fraud_count
        /\ static_folder["fraud_agencies.png"]
              = value_counts(column(results_data.fraud_table, AGENCY_NAME))
        /\ LET chart == static_folder["eda_plot.png"]
               stats == results_data.eda_summary.amount_stats
           IN /\ DOMAIN chart # {}
              /\ \A v \in DOMAIN chart : stats.min[1] <= v[1] /\ v[1] <= stats.max[1]
              /\ stats.min \in DOMAIN chart
              /\ stats.max \in DOMAIN chart

\* C5: every page that dashboard() or results() renders from results_data
\* shows the values of one single run: there is one upload and one labelling
\* of its rows whose results are the page's arguments, all of them
C5_PagesShowOneRun ==
    (/\ response.route \in {"/dashboard", "/results"}
     /\ response.body.kind = "template"
     /\ "message" \notin DOMAIN response.body.args) =>
        \E f \in ThreadFiles :
            LET before == rename(select_columns(ingest(f), expected_cols))
                cleaned == clean(before)
                feat == add_features(cleaned)
            IN \E labels \in predictions(Len(feat.rows)) :
                   response = page(response.route,
                                   read_all(reads_of(response.route),
                                            new_results(before, cleaned,
                                                        add_anomaly(feat, labels))))

\* C4: once line 155 has run, 0 <= fraud_count <= total_transactions and
\* fraud_percentage is 100 * fraud_count / total_transactions rounded to two
\* places: in hundredths of a percent, the whole number nearest to
\* 10000 * fraud_count / total_transactions and, when that lies halfway between
\* two, the upper one, the even one, or the one Python's
\* round(100 * fraud_count / total_transactions, 2) returns
C4_PercentageIsRounded ==
    summary.fraud_percentage # -1 =>
        LET q == (10000 * summary.fraud_count) \div summary.total_transactions
            r == (10000 * summary.fraud_count) % summary.total_transactions
        IN /\ 0 <= summary.fraud_count
           /\ summary.fraud_count <= summary.total_transactions
           /\ IF 2 * r < summary.total_transactions THEN summary.fraud_percentage = q
              ELSE IF 2 * r > summary.total_transactions THEN summary.fraud_percentage = q + 1
              ELSE summary.fraud_percentage
                      \in {q + 1, q + (q % 2),
                           round_hundredths(float_div(100 * summary.fraud_count,
                                                      summary.total_transactions))}

====
